---- MODULE Spec2Model ----
(***************************************************************************)
(* Model of the video processing queue                                     *)
(* (backend/src/services/processingQueue.js): the in-memory FIFO of video  *)
(* ids, the in-flight set, the scheduler loops started by start(), the job *)
(* body processJob with each of its awaits as a suspension point, the      *)
(* Video records it persists and the notifications it emits.               *)
(***************************************************************************)
EXTENDS Integers, Sequences, FiniteSets, TLC

\* ---------------------------------------------------------------- bounds
\* number of ids that enqueue() may append in one behaviour of Spec
MaxEnqueues == 3
\* number of ids that enqueue() may append in one behaviour of SpecJob
MaxJobEnqueues == 2
\* number of ids that enqueue() may append in one behaviour of SpecClear
MaxClearEnqueues == 2
\* number of ids that enqueue() may append in one behaviour of SpecStop
MaxStopEnqueues == 2
\* number of ids that enqueue() may append in one behaviour of SpecFault
MaxFaultEnqueues == 2
\* number of ids that enqueue() may append in one behaviour of SpecNotify
MaxNotifyEnqueues == 2
\* number of enqueue() calls for an id that is already pending or in flight
MaxIgnored == 1
\* number of scheduler loops (pending processNext callbacks plus running
\* job continuations) that may be live at once
MaxLoops == 2
\* number of ids that enqueue() may append in one behaviour of SpecLive
MaxLiveEnqueues == 2
\* last value of the millisecond clock (Date.now()) in one behaviour of
\* SpecPipeline, counted from the first call
MaxClock == 2

\* default of MAX_CONCURRENT_PROCESSING
DefaultMaxConcurrent == 2

\* video ids; v1 and v2 have a record, v3 has none
Ids == {"v1", "v2", "v3"}
NoRecord == [status |-> "absent", derived |-> FALSE, err |-> "none", owner |-> "nobody"]
NewRecord(u) == [status |-> "uploaded", derived |-> FALSE, err |-> "none", owner |-> u]
InitialRecords == [v \in Ids |-> CASE v = "v1" -> NewRecord("u1")
                                    [] v = "v2" -> NewRecord("u2")
                                    [] OTHER -> NoRecord]

\* outcomes of the collaborators
FindOutcomes == {"resolve", "reject"}
SaveOutcomes == {"resolve", "reject"}
ProcessVideoOutcomes == {"success", "download_error", "inspector_error"}
DbErrorMessage == "db_error"

VARIABLES
  queue,          \* this.queue: pending ids, oldest first
  processing,     \* this.processing: set of in-flight ids
  isRunning,      \* this.isRunning
  maxConcurrent,  \* this.maxConcurrent
  io,             \* this.io is set (TRUE) or null (FALSE)
  errorListener,  \* a listener is registered for the 'error' event
  timers,         \* pending setTimeout/setImmediate callbacks of processNext
  jobs,           \* running processJob bodies, in dispatch order
  db,             \* the persisted Video records
  enqueued,       \* history: ids appended by enqueue, in order
  dispatched,     \* history: ids of the 'processing' events, in order
  completed,      \* history: ids of the 'completed' events, in order
  ignored,        \* history: number of enqueue calls that changed nothing
  sinceReset,     \* history: enqueues of new ids since stop(); clear()
  metadata,       \* analyzeSensitivity: the metadata argument
  title,          \* analyzeSensitivity: the title argument
  description,    \* analyzeSensitivity: the description argument
  analysis,       \* analyzeSensitivity: the value returned, NoAnalysis before the call
  clock,          \* Date.now(), in milliseconds
  calls,          \* processVideo: the calls made by the concurrent job bodies
  files           \* the files present in os.tmpdir()

\* the arguments and the result of a classifier call
classifierVars == <<metadata, title, description, analysis>>

\* the clock, the processVideo calls and the temporary directory
pipelineVars == <<clock, calls, files>>

\* the queue, its job bodies, the records and the histories
queueVars == <<queue, processing, isRunning, maxConcurrent, io, errorListener,
               timers, jobs, db, enqueued, dispatched, completed, ignored,
               sinceReset>>

vars == <<queue, processing, isRunning, maxConcurrent, io, errorListener,
          timers, jobs, db, enqueued, dispatched, completed, ignored,
          sinceReset, metadata, title, description, analysis,
          clock, calls, files>>

Range(s) == {s[i] : i \in 1..Len(s)}
RemoveAt(s, i) == SubSeq(s, 1, i - 1) \o SubSeq(s, i + 1, Len(s))

NoJob == [id |-> "none", n |-> 0, pc |-> "none", missing |-> FALSE, saves |-> 0,
          pvCalled |-> FALSE, notes |-> <<>>, error |-> "none",
          result |-> "none", lastSaveOk |-> FALSE, errorEvent |-> FALSE,
          threw |-> FALSE]

\* processJob up to its first await (Video.findById)
\* n numbers the job bodies in dispatch order
processJobStart(videoId, n) == [NoJob EXCEPT !.id = videoId, !.n = n, !.pc = "find"]

\* ------------------------------------------------------- the queue object
\* The fields the synchronous methods read and write, as one value, so that
\* enqueue -> start -> processNext compose as the calls do.
Q == [queue |-> queue, processing |-> processing, isRunning |-> isRunning,
      timers |-> timers, jobs |-> jobs, dispatched |-> dispatched,
      events |-> <<>>]

emit(q, e) == [q EXCEPT !.events = Append(@, e)]

\* variant of processNext without the test of processing.size
processNextNoLimit(q) ==
  IF ~q.isRunning THEN q
  ELSE IF q.queue = <<>> THEN [q EXCEPT !.timers = @ + 1]
  ELSE LET videoId == Head(q.queue) IN
       emit([q EXCEPT !.queue = Tail(@),
                      !.processing = @ \cup {videoId},
                      !.dispatched = Append(@, videoId),
                      !.jobs = Append(@, processJobStart(videoId, Len(q.dispatched) + 1))],
            <<"processing", videoId>>)

\* variant of processNext that takes the newest id (queue.pop())
processNextLifo(q) ==
  IF ~q.isRunning THEN q
  ELSE IF Cardinality(q.processing) >= maxConcurrent THEN [q EXCEPT !.timers = @ + 1]
  ELSE IF q.queue = <<>> THEN [q EXCEPT !.timers = @ + 1]
  ELSE LET videoId == q.queue[Len(q.queue)] IN
       emit([q EXCEPT !.queue = SubSeq(@, 1, Len(@) - 1),
                      !.processing = @ \cup {videoId},
                      !.dispatched = Append(@, videoId),
                      !.jobs = Append(@, processJobStart(videoId, Len(q.dispatched) + 1))],
            <<"processing", videoId>>)

\* variant of processNext without the test of isRunning
processNextIgnoreStop(q) ==
  IF Cardinality(q.processing) >= maxConcurrent THEN [q EXCEPT !.timers = @ + 1]
  ELSE IF q.queue = <<>> THEN [q EXCEPT !.timers = @ + 1]
  ELSE LET videoId == Head(q.queue) IN
       emit([q EXCEPT !.queue = Tail(@),
                      !.processing = @ \cup {videoId},
                      !.dispatched = Append(@, videoId),
                      !.jobs = Append(@, processJobStart(videoId, Len(q.dispatched) + 1))],
            <<"processing", videoId>>)

\* processNext up to its await: the dispatch decision
processNext(q) ==
  IF ~q.isRunning THEN q
  ELSE IF Cardinality(q.processing) >= maxConcurrent THEN [q EXCEPT !.timers = @ + 1]
  ELSE IF q.queue = <<>> THEN [q EXCEPT !.timers = @ + 1]
  ELSE LET videoId == Head(q.queue) IN
       emit([q EXCEPT !.queue = Tail(@),
                      !.processing = @ \cup {videoId},
                      !.dispatched = Append(@, videoId),
                      !.jobs = Append(@, processJobStart(videoId, Len(q.dispatched) + 1))],
            <<"processing", videoId>>)

start(q) ==
  IF q.isRunning THEN q
  ELSE processNext(emit([q EXCEPT !.isRunning = TRUE], <<"started">>))

stop(q) == emit([q EXCEPT !.isRunning = FALSE], <<"stopped">>)

\* variant of enqueue without the duplicate test
enqueueNoCheck(q, videoId) ==
  LET q1 == emit([q EXCEPT !.queue = Append(@, videoId)], <<"enqueued", videoId>>)
  IN IF ~q1.isRunning THEN start(q1) ELSE q1

\* variant of enqueue that never calls start()
enqueueNoStart(q, videoId) ==
  IF videoId \notin Range(q.queue) /\ videoId \notin q.processing
  THEN emit([q EXCEPT !.queue = Append(@, videoId)], <<"enqueued", videoId>>)
  ELSE q

enqueue(q, videoId) ==
  IF videoId \notin Range(q.queue) /\ videoId \notin q.processing
  THEN LET q1 == emit([q EXCEPT !.queue = Append(@, videoId)], <<"enqueued", videoId>>)
       IN IF ~q1.isRunning THEN start(q1) ELSE q1
  ELSE q

clear(q) == emit([q EXCEPT !.queue = <<>>, !.processing = {}], <<"cleared">>)

getStats == [queued |-> Len(queue), processing |-> Cardinality(processing),
             maxConcurrent |-> maxConcurrent, isRunning |-> isRunning]

\* live scheduler loops of a queue value
Loops(q) == q.timers + Len(q.jobs)

\* write the queue object back
Commit(q) ==
  /\ queue' = q.queue
  /\ processing' = q.processing
  /\ isRunning' = q.isRunning
  /\ timers' = q.timers
  /\ jobs' = q.jobs
  /\ dispatched' = q.dispatched

\* ------------------------------------------------------- notifications
\* the sensitivity and sensitivityFlags arguments of emitProcessingStatus:
\* the defaults (null, []) or result.sensitivity, result.sensitivityFlags
NullSensitivity == "null"
ResultSensitivity == "result.sensitivity"

\* socket.js helpers: nothing is emitted while io is null
\* variant of emitProcessingStatus with io.emit in place of io.to(room).emit
emitProcessingStatusBroadcast(ioSet, userId, videoId, status, sensitivity) ==
  IF ~ioSet THEN <<>>
  ELSE << [kind |-> "status", room |-> "all", videoId |-> videoId, status |-> status,
           sensitivity |-> sensitivity] >>

emitProcessingProgress(ioSet, userId, videoId, percent) ==
  IF ~ioSet THEN <<>>
  ELSE << [kind |-> "progress", room |-> userId, videoId |-> videoId, percent |-> percent] >>

emitProcessingStatus(ioSet, userId, videoId, status, sensitivity) ==
  IF ~ioSet THEN <<>>
  ELSE << [kind |-> "status", room |-> userId, videoId |-> videoId, status |-> status,
           sensitivity |-> sensitivity] >>

emitProcessingError(ioSet, userId, videoId, error) ==
  IF ~ioSet THEN <<>>
  ELSE << [kind |-> "error", room |-> userId, videoId |-> videoId, error |-> error] >>

\* ------------------------------------------------------------ the job body
\* A step of processJob yields the job, the records and the queue events.
Step(job, dbv, evs) == [job |-> job, db |-> dbv, events |-> evs]

\* this.emit('error', videoId, error) at the end of the catch block: an
\* EventEmitter without an 'error' listener throws from emit
emitErrorEvent(job, dbv) ==
  IF errorListener
  THEN Step([job EXCEPT !.pc = "settled", !.errorEvent = TRUE], dbv,
            << <<"error", job.id>> >>)
  ELSE Step([job EXCEPT !.pc = "settled", !.threw = TRUE], dbv, <<>>)

\* catch (error): the fallback update starts with a second findById
catchBlock(job, error, dbv) ==
  Step([job EXCEPT !.pc = "cfind", !.error = error], dbv, <<>>)

\* variant of the lookup without the early return: video.ownerUserId of a
\* null video throws a TypeError into the catch block
onFindByIdIgnoreMissing(job, res, dbv) ==
  IF res = "reject" THEN catchBlock(job, DbErrorMessage, dbv)
  ELSE IF dbv[job.id].status = "absent"
  THEN catchBlock([job EXCEPT !.missing = TRUE], "type_error", dbv)
  ELSE Step([job EXCEPT !.pc = "save1", !.saves = @ + 1], dbv, <<>>)

\* const video = await Video.findById(videoId) ... await video.save()
onFindById(job, res, dbv) ==
  IF res = "reject" THEN catchBlock(job, DbErrorMessage, dbv)
  ELSE IF dbv[job.id].status = "absent"
  THEN Step([job EXCEPT !.pc = "settled", !.missing = TRUE], dbv, <<>>)
  ELSE Step([job EXCEPT !.pc = "save1", !.saves = @ + 1], dbv, <<>>)

\* the save of status 'processing' settles; notifications; processVideo starts
onSaveProcessing(job, res, dbv) ==
  IF res = "reject"
  THEN catchBlock([job EXCEPT !.lastSaveOk = FALSE], DbErrorMessage, dbv)
  ELSE LET userId == dbv[job.id].owner IN
       Step([job EXCEPT !.pc = "pv", !.lastSaveOk = TRUE, !.pvCalled = TRUE,
                        !.notes = @ \o emitProcessingStatus(io, userId, job.id, "processing", NullSensitivity)
                                    \o emitProcessingProgress(io, userId, job.id, 0)
                                    \o emitProcessingProgress(io, userId, job.id, 25)],
            [dbv EXCEPT ![job.id].status = "processing"], <<>>)

\* variant of the continuation after processVideo without the progress
\* notification
onProcessVideoNoProgress(job, out, dbv) ==
  LET j1 == [job EXCEPT !.saves = @ + 1]
  IN IF out = "success"
     THEN Step([j1 EXCEPT !.pc = "saveReady", !.result = "success"], dbv, <<>>)
     ELSE Step([j1 EXCEPT !.pc = "saveFailed", !.result = "failure", !.error = out], dbv, <<>>)

\* processVideo settles; the result is applied to the document and saved
onProcessVideo(job, out, dbv) ==
  LET userId == dbv[job.id].owner
      j1 == [job EXCEPT !.notes = @ \o emitProcessingProgress(io, userId, job.id, 75),
                        !.saves = @ + 1]
  IN IF out = "success"
     THEN Step([j1 EXCEPT !.pc = "saveReady", !.result = "success"], dbv, <<>>)
     ELSE Step([j1 EXCEPT !.pc = "saveFailed", !.result = "failure", !.error = out], dbv, <<>>)

\* variant of the final save whose notifications need a socket: with io
\* null the helper dereferences it, after the save, and the TypeError lands
\* in the catch block
onSaveResultNeedsChannel(job, res, dbv) ==
  LET userId == dbv[job.id].owner IN
  IF res = "reject"
  THEN catchBlock([job EXCEPT !.lastSaveOk = FALSE], DbErrorMessage, dbv)
  ELSE IF job.pc = "saveReady"
  THEN IF ~io
       THEN catchBlock([job EXCEPT !.lastSaveOk = TRUE], "type_error",
                       [dbv EXCEPT ![job.id].status = "ready", ![job.id].derived = TRUE])
       ELSE Step([job EXCEPT !.pc = "settled", !.lastSaveOk = TRUE,
                             !.notes = @ \o emitProcessingProgress(io, userId, job.id, 100)
                                         \o emitProcessingStatus(io, userId, job.id, "ready", ResultSensitivity)],
                 [dbv EXCEPT ![job.id].status = "ready", ![job.id].derived = TRUE],
                 << <<"success", job.id>> >>)
  ELSE IF ~io
       THEN catchBlock([job EXCEPT !.lastSaveOk = TRUE], "type_error",
                       [dbv EXCEPT ![job.id].status = "failed", ![job.id].err = job.error])
       ELSE Step([job EXCEPT !.pc = "settled", !.lastSaveOk = TRUE,
                             !.notes = @ \o emitProcessingError(io, userId, job.id, job.error)
                                         \o emitProcessingStatus(io, userId, job.id, "failed", NullSensitivity)],
                 [dbv EXCEPT ![job.id].status = "failed", ![job.id].err = job.error],
                 << <<"failed", job.id>> >>)

\* variant of the final save that notifies status(failed) before the error
onSaveResultStatusFirst(job, res, dbv) ==
  LET userId == dbv[job.id].owner IN
  IF res = "reject"
  THEN catchBlock([job EXCEPT !.lastSaveOk = FALSE], DbErrorMessage, dbv)
  ELSE IF job.pc = "saveReady"
  THEN Step([job EXCEPT !.pc = "settled", !.lastSaveOk = TRUE,
                        !.notes = @ \o emitProcessingProgress(io, userId, job.id, 100)
                                    \o emitProcessingStatus(io, userId, job.id, "ready", ResultSensitivity)],
            [dbv EXCEPT ![job.id].status = "ready", ![job.id].derived = TRUE],
            << <<"success", job.id>> >>)
  ELSE Step([job EXCEPT !.pc = "settled", !.lastSaveOk = TRUE,
                        !.notes = @ \o emitProcessingStatus(io, userId, job.id, "failed", NullSensitivity)
                                    \o emitProcessingError(io, userId, job.id, job.error)],
            [dbv EXCEPT ![job.id].status = "failed", ![job.id].err = job.error],
            << <<"failed", job.id>> >>)

\* the save of the final status settles
onSaveResult(job, res, dbv) ==
  LET userId == dbv[job.id].owner IN
  IF res = "reject"
  THEN catchBlock([job EXCEPT !.lastSaveOk = FALSE], DbErrorMessage, dbv)
  ELSE IF job.pc = "saveReady"
  THEN Step([job EXCEPT !.pc = "settled", !.lastSaveOk = TRUE,
                        !.notes = @ \o emitProcessingProgress(io, userId, job.id, 100)
                                    \o emitProcessingStatus(io, userId, job.id, "ready", ResultSensitivity)],
            [dbv EXCEPT ![job.id].status = "ready", ![job.id].derived = TRUE],
            << <<"success", job.id>> >>)
  ELSE Step([job EXCEPT !.pc = "settled", !.lastSaveOk = TRUE,
                        !.notes = @ \o emitProcessingError(io, userId, job.id, job.error)
                                    \o emitProcessingStatus(io, userId, job.id, "failed", NullSensitivity)],
            [dbv EXCEPT ![job.id].status = "failed", ![job.id].err = job.error],
            << <<"failed", job.id>> >>)

\* variant of the catch block with emit('error') inside the inner try, after
\* the save: a second lookup that fails or finds nothing skips it
onCatchFindSilent(job, res, dbv) ==
  IF res = "reject" \/ dbv[job.id].status = "absent"
  THEN Step([job EXCEPT !.pc = "settled"], dbv, <<>>)
  ELSE Step([job EXCEPT !.pc = "csave", !.saves = @ + 1], dbv, <<>>)

\* catch block: const video = await Video.findById(videoId)
onCatchFind(job, res, dbv) ==
  IF res = "reject" \/ dbv[job.id].status = "absent"
  THEN emitErrorEvent(job, dbv)
  ELSE Step([job EXCEPT !.pc = "csave", !.saves = @ + 1], dbv, <<>>)

\* variant of the catch block that does not set status = 'failed'
onCatchSaveKeepsStatus(job, res, dbv) ==
  LET userId == dbv[job.id].owner IN
  IF res = "reject"
  THEN emitErrorEvent([job EXCEPT !.lastSaveOk = FALSE], dbv)
  ELSE emitErrorEvent(
         [job EXCEPT !.lastSaveOk = TRUE,
                     !.notes = @ \o emitProcessingError(io, userId, job.id, job.error)
                                 \o emitProcessingStatus(io, userId, job.id, "failed", NullSensitivity)],
         [dbv EXCEPT ![job.id].err = job.error])

\* catch block: await video.save() of status 'failed'
onCatchSave(job, res, dbv) ==
  LET userId == dbv[job.id].owner IN
  IF res = "reject"
  THEN emitErrorEvent([job EXCEPT !.lastSaveOk = FALSE], dbv)
  ELSE emitErrorEvent(
         [job EXCEPT !.lastSaveOk = TRUE,
                     !.notes = @ \o emitProcessingError(io, userId, job.id, job.error)
                                 \o emitProcessingStatus(io, userId, job.id, "failed", NullSensitivity)],
         [dbv EXCEPT ![job.id].status = "failed", ![job.id].err = job.error])

\* processJob from the await job is suspended at, for the outcome res of
\* the awaited call
processJob(job, res, dbv) ==
  CASE job.pc = "find" -> onFindById(job, res, dbv)
    [] job.pc = "save1" -> onSaveProcessing(job, res, dbv)
    [] job.pc = "pv" -> onProcessVideo(job, res, dbv)
    [] job.pc \in {"saveReady", "saveFailed"} -> onSaveResult(job, res, dbv)
    [] job.pc = "cfind" -> onCatchFind(job, res, dbv)
    [] job.pc = "csave" -> onCatchSave(job, res, dbv)
    [] OTHER -> Step(job, dbv, <<>>)

\* the outcomes of the call job is suspended at
AwaitOutcomes(job) ==
  CASE job.pc \in {"find", "cfind"} -> FindOutcomes
    [] job.pc = "pv" -> ProcessVideoOutcomes
    [] OTHER -> SaveOutcomes

\* ------------------------------------------------------------ classifier
\* analyzeSensitivity (services/videoProcessing.js). A string is the sequence
\* of its characters.
UpperCase == <<"A", "B", "C", "D", "E", "F", "G", "H", "I", "J", "K", "L", "M", "N", "O", "P", "Q", "R", "S", "T", "U", "V", "W", "X", "Y", "Z">>
LowerCase == <<"a", "b", "c", "d", "e", "f", "g", "h", "i", "j", "k", "l", "m", "n", "o", "p", "q", "r", "s", "t", "u", "v", "w", "x", "y", "z">>

\* String.prototype.toLowerCase
charToLowerCase(c) ==
  IF \E i \in 1..Len(UpperCase) : UpperCase[i] = c
  THEN LowerCase[CHOOSE i \in 1..Len(UpperCase) : UpperCase[i] = c]
  ELSE c

toLowerCase(s) == [i \in 1..Len(s) |-> charToLowerCase(s[i])]

\* String.prototype.includes
includes(s, k) ==
  \E p \in 1..(Len(s) - Len(k) + 1) : SubSeq(s, p, p + Len(k) - 1) = k

sensitiveKeywords ==
  << <<"e", "x", "p", "l", "i", "c", "i", "t">>,
     <<"n", "s", "f", "w">>,
     <<"a", "d", "u", "l", "t">>,
     <<"1", "8", "+">>,
     <<"m", "a", "t", "u", "r", "e">>,
     <<"v", "i", "o", "l", "e", "n", "c", "e">>,
     <<"g", "r", "a", "p", "h", "i", "c">> >>

\* an entry of flags; the keyword flag is the text followed by the keyword
Flag(text) == [text |-> text, keyword |-> <<>>]
KeywordFlag(keyword) == [text |-> "Contains sensitive keyword: ", keyword |-> keyword]

\* variant of Rule 1 that counts a duration of exactly 5 s as very short
durationRuleInclusive(m, flags) ==
  IF m.duration <= 5 THEN Append(flags, Flag("Very short duration (< 5 seconds)"))
  ELSE IF m.duration > 3600 THEN Append(flags, Flag("Very long duration (> 1 hour)"))
  ELSE flags

\* Rule 1: very short or very long videos
durationRule(m, flags) ==
  IF m.duration < 5 THEN Append(flags, Flag("Very short duration (< 5 seconds)"))
  ELSE IF m.duration > 3600 THEN Append(flags, Flag("Very long duration (> 1 hour)"))
  ELSE flags

\* Rule 2: aspectRatio = width / height, below 0.5 or above 3; a missing
\* video stream or dimension reads as 0
aspectRatioRule(m, flags) ==
  IF m.width > 0 /\ m.height > 0
  THEN IF 2 * m.width < m.height \/ m.width > 3 * m.height
       THEN Append(flags, Flag("Unusual aspect ratio"))
       ELSE flags
  ELSE flags

\* variant of textToCheck without toLowerCase()
textToCheckCaseSensitive(t, d) == t \o <<" ">> \o d

\* `${title} ${description}`.toLowerCase()
textToCheck(t, d) == toLowerCase(t \o <<" ">> \o d)

\* Rule 3: for (const keyword of sensitiveKeywords) with break on the first
\* keyword the text includes; yields the keywords flagged, from index i on
RECURSIVE keywordLoop(_, _)
keywordLoop(text, i) ==
  IF i > Len(sensitiveKeywords) THEN <<>>
  ELSE IF includes(text, sensitiveKeywords[i]) THEN << sensitiveKeywords[i] >>
  ELSE keywordLoop(text, i + 1)

\* Rule 4: sizePerSecond = size / duration below 10000, for duration > 0
bitrateRule(m, flags) ==
  IF m.duration > 0
  THEN IF m.size < 10000 * m.duration
       THEN Append(flags, Flag("Unusually low bitrate/quality"))
       ELSE flags
  ELSE flags

\* Rule 5: no audio stream in a video longer than 30 s
audioRule(m, flags) ==
  IF ~m.audio /\ m.duration > 30
  THEN Append(flags, Flag("No audio stream in video > 30s"))
  ELSE flags

\* variant of the final level without the test of flags.length >= 3
finalSensitivityNoCount(flags, sensitivity) ==
  IF Len(flags) = 0 THEN "safe"
  ELSE IF sensitivity # "flagged" THEN "unknown"
  ELSE sensitivity

\* the two if statements after the rules
finalSensitivity(flags, sensitivity) ==
  LET s1 == IF Len(flags) >= 3 /\ sensitivity # "flagged" THEN "flagged" ELSE sensitivity
  IN IF Len(flags) = 0 THEN "safe"
     ELSE IF s1 # "flagged" THEN "unknown"
     ELSE s1

\* the value returned, without analyzedAt (the time of the call)
analyzeSensitivity(m, t, d) ==
  LET f1 == durationRule(m, <<>>)
      f2 == aspectRatioRule(m, f1)
      found == keywordLoop(textToCheck(t, d), 1)
      f3 == f2 \o [i \in 1..Len(found) |-> KeywordFlag(found[i])]
      s3 == IF found # <<>> THEN "flagged" ELSE "safe"
      f4 == bitrateRule(m, f3)
      f5 == audioRule(m, f4)
  IN [sensitivity |-> finalSensitivity(f5, s3), flags |-> f5]

\* no classifier call has returned
NoAnalysis == [sensitivity |-> "none", flags |-> <<>>]
NoMetadata == [duration |-> 0, size |-> 0, width |-> 0, height |-> 0, audio |-> FALSE]

\* arguments of the classifier: durations and sizes around the thresholds of
\* the rules, dimensions around the two aspect ratio limits and without a
\* video stream, with and without an audio stream
Durations == {0, 4, 5, 30, 31, 3600, 3601}
Sizes == {0, 49999, 50000, 36010000}
Dimensions == {<<0, 0>>, <<1920, 0>>, <<1920, 1080>>, <<1, 2>>, <<1, 3>>, <<3, 1>>, <<4, 1>>}
Metadatas ==
  {[duration |-> dur, size |-> sz, width |-> dim[1], height |-> dim[2], audio |-> a] :
     dur \in Durations, sz \in Sizes, dim \in Dimensions, a \in BOOLEAN}
\* "", "cat", "NSFW", "graphic", "Adu"
Titles == {<<>>, <<"c", "a", "t">>, <<"N", "S", "F", "W">>, <<"g", "r", "a", "p", "h", "i", "c">>, <<"A", "d", "u">>}
\* "", "Explicit", "lt", "18+"
Descriptions == {<<>>, <<"E", "x", "p", "l", "i", "c", "i", "t">>, <<"l", "t">>, <<"1", "8", "+">>}

\* ------------------------------------------------------------ processVideo
\* the job bodies that may run at once, each calling processVideo once
Calls == 1..DefaultMaxConcurrent
\* path.extname(video.storedFilename)
Exts == {".mp4", ".mov"}
\* metadata.format.duration as ffprobe reports it, in milliseconds
DurationsMs == {0, 500, 4600}
\* the outcomes of an awaited promise
Settlements == {"resolve", "reject"}

\* let tempVideoPath = null, tempThumbnailPath = null
NoPath == [prefix |-> "null", time |-> -1, ext |-> ""]
\* path.join(tempDir, `video-${Date.now()}${ext}`)
tempVideoPath(now, ext) == [prefix |-> "video", time |-> now, ext |-> ext]
\* path.join(tempDir, `thumb-${Date.now()}.jpg`)
tempThumbnailPath(now) == [prefix |-> "thumb", time |-> now, ext |-> ".jpg"]

\* Math.round of a number of milliseconds taken as fractional seconds
MathRound(ms) == (ms + 500) \div 1000

\* a call that has not been made: no path, no metadata, no unlink, no result
NoCall == [pc |-> "idle", tempVideoPath |-> NoPath, tempThumbnailPath |-> NoPath,
           duration |-> -1, unlinked |-> {}, success |-> FALSE,
           resultDuration |-> -1, error |-> "none"]

\* catch (error): unlink of tempVideoPath is called
catchError(call, message) ==
  [call EXCEPT !.pc = "catchUnlinkVideo", !.error = message,
               !.unlinked = @ \cup {call.tempVideoPath}]

\* the first statements of processVideo, up to await downloadToBuffer; the
\* clock is read twice, 'later' is its second value
processVideoStart(call, now, later, ext) ==
  [call EXCEPT !.pc = "downloadToBuffer",
               !.tempVideoPath = tempVideoPath(now, ext),
               !.tempThumbnailPath = tempThumbnailPath(later)]

\* await gridfsStorage.downloadToBuffer settles
onDownloadToBuffer(call, out) ==
  IF out = "resolve" THEN [call EXCEPT !.pc = "writeFile"]
  ELSE catchError(call, "download_error")

\* await fs.writeFile(tempVideoPath, videoBuffer) settles
onWriteFile(call, out) ==
  IF out = "resolve" THEN [call EXCEPT !.pc = "extractMetadata"]
  ELSE catchError(call, "download_error")

\* await extractMetadata(tempVideoPath) settles with duration d
onExtractMetadata(call, out, d) ==
  IF out = "resolve" THEN [call EXCEPT !.pc = "generateThumbnail", !.duration = d]
  ELSE catchError(call, "inspector_error")

\* await generateThumbnail settles
onGenerateThumbnail(call, out) ==
  IF out = "resolve" THEN [call EXCEPT !.pc = "readFile"]
  ELSE catchError(call, "thumbnail_error")

\* await fs.readFile(tempThumbnailPath) settles
onReadFile(call, out) ==
  IF out = "resolve" THEN [call EXCEPT !.pc = "uploadToGridFS"]
  ELSE catchError(call, "thumbnail_error")

\* await uploadToGridFS settles; analyzeSensitivity runs and the clean-up
\* of the success path calls unlink of tempVideoPath
onUploadToGridFS(call, out) ==
  IF out = "resolve"
  THEN [call EXCEPT !.pc = "unlinkVideo", !.unlinked = @ \cup {call.tempVideoPath}]
  ELSE catchError(call, "thumbnail_error")

\* return { success: true, metadata: { duration: Math.round(...) ... } }
returnSuccess(call) ==
  [call EXCEPT !.pc = "returned", !.success = TRUE,
               !.resultDuration = MathRound(call.duration)]

\* success path: await fs.unlink(tempVideoPath) settles; both unlinks are in
\* one try block, a rejection goes to catch (cleanupError) and to the return
onUnlinkVideo(call, out) ==
  IF out = "resolve"
  THEN [call EXCEPT !.pc = "unlinkThumbnail",
                    !.unlinked = @ \cup {call.tempThumbnailPath}]
  ELSE returnSuccess(call)

\* success path: await fs.unlink(tempThumbnailPath) settles
onUnlinkThumbnail(call, out) == returnSuccess(call)

\* catch block: await fs.unlink(tempVideoPath) settles, in its own try
onCatchUnlinkVideo(call, out) ==
  [call EXCEPT !.pc = "catchUnlinkThumbnail",
               !.unlinked = @ \cup {call.tempThumbnailPath}]

\* catch block: await fs.unlink(tempThumbnailPath) settles, in its own try;
\* return { success: false, error: error.message }
onCatchUnlinkThumbnail(call, out) ==
  [call EXCEPT !.pc = "returned", !.success = FALSE]

\* the file that the awaited operation of a call reads, NoPath if none
Reads(call) ==
  CASE call.pc \in {"extractMetadata", "generateThumbnail", "unlinkVideo",
                    "catchUnlinkVideo"} -> call.tempVideoPath
    [] call.pc \in {"readFile", "unlinkThumbnail", "catchUnlinkThumbnail"} ->
         call.tempThumbnailPath
    [] OTHER -> NoPath

\* an operation on a file that does not exist rejects (ENOENT); any
\* operation can reject
CanSettle(call, out, present) ==
  out = "reject" \/ Reads(call) = NoPath \/ Reads(call) \in present

\* the temporary directory after the awaited operation of a call settled
filesAfter(call, out, present) ==
  IF out = "reject" THEN present
  ELSE CASE call.pc = "writeFile" -> present \cup {call.tempVideoPath}
         [] call.pc = "generateThumbnail" -> present \cup {call.tempThumbnailPath}
         [] call.pc \in {"unlinkVideo", "catchUnlinkVideo"} ->
              present \ {call.tempVideoPath}
         [] call.pc \in {"unlinkThumbnail", "catchUnlinkThumbnail"} ->
              present \ {call.tempThumbnailPath}
         [] OTHER -> present

\* ------------------------------------------------------------------ Init
\* The module creates the singleton (no listener, io null) and, outside the
\* test environment, starts it: start() finds the queue empty and arms the
\* poll timer.
Init ==
  /\ queue = <<>>
  /\ processing = {}
  /\ maxConcurrent \in 1..DefaultMaxConcurrent
  /\ \/ isRunning = FALSE /\ timers = 0
     \/ isRunning = TRUE /\ timers = 1
  /\ io = FALSE
  /\ errorListener = FALSE
  /\ jobs = <<>>
  /\ db = InitialRecords
  /\ enqueued = <<>>
  /\ dispatched = <<>>
  /\ completed = <<>>
  /\ ignored = 0
  /\ sinceReset = -2
  /\ metadata = NoMetadata
  /\ title = <<>>
  /\ description = <<>>
  /\ analysis = NoAnalysis
  /\ clock = 0
  /\ calls = [p \in Calls |-> NoCall]
  /\ files = {}

\* --------------------------------------------------------------- actions
SetSocketIO ==
  /\ ~io
  /\ io' = TRUE
  /\ sinceReset' = -2
  /\ UNCHANGED <<classifierVars, pipelineVars>>
  /\ UNCHANGED <<queue, processing, isRunning, maxConcurrent, errorListener,
                 timers, jobs, db, enqueued, dispatched, completed, ignored>>

\* processingQueue.on('error', handler)
OnError ==
  /\ ~errorListener
  /\ errorListener' = TRUE
  /\ sinceReset' = -2
  /\ UNCHANGED <<classifierVars, pipelineVars>>
  /\ UNCHANGED <<queue, processing, isRunning, maxConcurrent, io,
                 timers, jobs, db, enqueued, dispatched, completed, ignored>>

Enqueue(videoId, cap) ==
  LET q == enqueue(Q, videoId)
      appended == <<"enqueued", videoId>> \in Range(q.events)
  IN /\ Len(q.queue) + Len(q.dispatched) > Len(queue) + Len(dispatched)
          => Len(enqueued) < cap
     /\ q = Q => ignored < MaxIgnored
     /\ ignored' = IF q = Q THEN ignored + 1 ELSE ignored
     /\ Loops(q) <= MaxLoops
     /\ Commit(q)
     /\ enqueued' = IF appended THEN Append(enqueued, videoId) ELSE enqueued
     /\ sinceReset' = IF sinceReset >= 0
                      THEN (IF appended THEN sinceReset + 1 ELSE sinceReset)
                      ELSE -2
     /\ UNCHANGED <<classifierVars, pipelineVars>>
     /\ UNCHANGED <<maxConcurrent, io, errorListener, db, completed>>

Start ==
  LET q == start(Q)
  IN /\ Loops(q) <= MaxLoops
     /\ Commit(q)
     /\ sinceReset' = -2
     /\ UNCHANGED <<classifierVars, pipelineVars>>
     /\ UNCHANGED <<maxConcurrent, io, errorListener, db, enqueued, completed,
                    ignored>>

Stop ==
  LET q == stop(Q)
  IN /\ Commit(q)
     /\ sinceReset' = -1
     /\ UNCHANGED <<classifierVars, pipelineVars>>
     /\ UNCHANGED <<maxConcurrent, io, errorListener, db, enqueued, completed,
                    ignored>>

Clear ==
  LET q == clear(Q)
  IN /\ Commit(q)
     /\ sinceReset' = IF sinceReset = -1 THEN 0 ELSE -2
     /\ UNCHANGED <<classifierVars, pipelineVars>>
     /\ UNCHANGED <<maxConcurrent, io, errorListener, db, enqueued, completed,
                    ignored>>

\* a setTimeout / setImmediate callback runs processNext
TimerFires ==
  /\ timers > 0
  /\ Commit(processNext([Q EXCEPT !.timers = @ - 1]))
  /\ sinceReset' = -2
  /\ UNCHANGED <<classifierVars, pipelineVars>>
  /\ UNCHANGED <<maxConcurrent, io, errorListener, db, enqueued, completed,
                 ignored>>

\* one await of job i settles and processJob runs to its next await
JobAdvance(i, s) ==
  /\ jobs' = [jobs EXCEPT ![i] = s.job]
  /\ db' = s.db
  /\ sinceReset' = -2
  /\ UNCHANGED <<classifierVars, pipelineVars>>
  /\ UNCHANGED <<queue, processing, isRunning, maxConcurrent, io, errorListener,
                 timers, enqueued, dispatched, completed, ignored>>

FindByIdSettles(i, res) ==
  /\ i \in 1..Len(jobs) /\ jobs[i].pc = "find"
  /\ JobAdvance(i, onFindById(jobs[i], res, db))

SaveProcessingSettles(i, res) ==
  /\ i \in 1..Len(jobs) /\ jobs[i].pc = "save1"
  /\ JobAdvance(i, onSaveProcessing(jobs[i], res, db))

ProcessVideoSettles(i, out) ==
  /\ i \in 1..Len(jobs) /\ jobs[i].pc = "pv"
  /\ JobAdvance(i, onProcessVideo(jobs[i], out, db))

SaveResultSettles(i, res) ==
  /\ i \in 1..Len(jobs) /\ jobs[i].pc \in {"saveReady", "saveFailed"}
  /\ JobAdvance(i, onSaveResult(jobs[i], res, db))

CatchFindSettles(i, res) ==
  /\ i \in 1..Len(jobs) /\ jobs[i].pc = "cfind"
  /\ JobAdvance(i, onCatchFind(jobs[i], res, db))

CatchSaveSettles(i, res) ==
  /\ i \in 1..Len(jobs) /\ jobs[i].pc = "csave"
  /\ JobAdvance(i, onCatchSave(jobs[i], res, db))

\* variant of the finally block that puts the id of a job that did not
\* succeed back into the queue
finallyRetry(q, i) ==
  emit([q EXCEPT !.processing = @ \ {q.jobs[i].id},
                 !.queue = IF q.jobs[i].result = "success" THEN @
                           ELSE Append(@, q.jobs[i].id),
                 !.jobs = RemoveAt(@, i),
                 !.timers = @ + 1],
       <<"completed", q.jobs[i].id>>)

\* variant of processNext with the cleanup after the await inside the try
\* block rather than in finally: a job body that throws skips it
finallyInTry(q, i) ==
  IF q.jobs[i].threw
  THEN [q EXCEPT !.jobs = RemoveAt(@, i)]
  ELSE emit([q EXCEPT !.processing = @ \ {q.jobs[i].id},
                      !.jobs = RemoveAt(@, i),
                      !.timers = @ + 1],
            <<"completed", q.jobs[i].id>>)

\* variant of the finally block that does not schedule the next processNext
finallyNoNext(q, i) ==
  emit([q EXCEPT !.processing = @ \ {q.jobs[i].id},
                 !.jobs = RemoveAt(@, i)],
       <<"completed", q.jobs[i].id>>)

\* the finally block of processNext after await this.processJob(videoId)
finally(q, i) ==
  emit([q EXCEPT !.processing = @ \ {q.jobs[i].id},
                 !.jobs = RemoveAt(@, i),
                 !.timers = @ + 1],
       <<"completed", q.jobs[i].id>>)

\* processNext resumes once processJob has settled: the catch swallows a
\* rejection and the finally block runs
Complete(i) ==
  /\ i \in 1..Len(jobs) /\ jobs[i].pc = "settled"
  /\ Commit(finally(Q, i))
  /\ completed' = IF <<"completed", jobs[i].id>> \in Range(finally(Q, i).events)
                  THEN Append(completed, jobs[i].id)
                  ELSE completed
  /\ sinceReset' = -2
  /\ UNCHANGED <<classifierVars, pipelineVars>>
  /\ UNCHANGED <<maxConcurrent, io, errorListener, db, enqueued, ignored>>

JobIndices == 1..(MaxLoops + 1)

\* ------------------------------------------------------- specifications
\* Spec: enqueue(), start(), stop(), the timers and the job bodies in any
\* interleaving, up to MaxLoops scheduler loops, clear() never called, the
\* record store available (no lookup or save rejects).
Next ==
  \/ \E v \in Ids : Enqueue(v, MaxEnqueues)
  \/ Start
  \/ Stop
  \/ TimerFires
  \/ \E i \in JobIndices : FindByIdSettles(i, "resolve")
  \/ \E i \in JobIndices : SaveProcessingSettles(i, "resolve")
  \/ \E i \in JobIndices, out \in ProcessVideoOutcomes : ProcessVideoSettles(i, out)
  \/ \E i \in JobIndices : SaveResultSettles(i, "resolve")
  \/ \E i \in JobIndices : Complete(i)

Spec == Init /\ [][Next]_vars

\* SpecClear: Spec with clear() as well.
NextClear ==
  \/ \E v \in Ids : Enqueue(v, MaxClearEnqueues)
  \/ Start
  \/ Stop
  \/ Clear
  \/ TimerFires
  \/ \E i \in JobIndices : FindByIdSettles(i, "resolve")
  \/ \E i \in JobIndices : SaveProcessingSettles(i, "resolve")
  \/ \E i \in JobIndices, out \in ProcessVideoOutcomes : ProcessVideoSettles(i, out)
  \/ \E i \in JobIndices : SaveResultSettles(i, "resolve")
  \/ \E i \in JobIndices : Complete(i)

SpecClear == Init /\ [][NextClear]_vars

\* SpecSync: the calls one synchronous caller makes; no timer and no promise
\* callback runs between them.
NextSync ==
  \/ \E v \in Ids : Enqueue(v, MaxEnqueues)
  \/ Start
  \/ Stop
  \/ Clear

SpecSync == Init /\ [][NextSync]_vars

\* SpecStop: Spec with every job body and every timer running on: an await
\* whose promise has settled resumes, and a due callback is called.
NextStop ==
  \/ \E v \in Ids : Enqueue(v, MaxStopEnqueues)
  \/ Start
  \/ Stop
  \/ TimerFires
  \/ \E i \in JobIndices : FindByIdSettles(i, "resolve")
  \/ \E i \in JobIndices : SaveProcessingSettles(i, "resolve")
  \/ \E i \in JobIndices, out \in ProcessVideoOutcomes : ProcessVideoSettles(i, out)
  \/ \E i \in JobIndices : SaveResultSettles(i, "resolve")
  \/ \E i \in JobIndices : Complete(i)

JobRuns(i) ==
  \/ FindByIdSettles(i, "resolve")
  \/ SaveProcessingSettles(i, "resolve")
  \/ \E out \in ProcessVideoOutcomes : ProcessVideoSettles(i, out)
  \/ SaveResultSettles(i, "resolve")
  \/ Complete(i)

SpecStop ==
  /\ Init
  /\ [][NextStop]_vars
  /\ \A i \in JobIndices : WF_vars(JobRuns(i))
  /\ WF_vars(TimerFires)

\* SpecJob: one job body at a time (clear(), stop() and start() are not
\* called), every outcome of every lookup, save and processVideo call, with
\* and without an 'error' listener and a socket.
JobIds == {"v1", "v3"}

NextJob ==
  \/ SetSocketIO
  \/ OnError
  \/ \E v \in JobIds : Enqueue(v, MaxJobEnqueues)
  \/ TimerFires
  \/ \E i \in JobIndices, res \in FindOutcomes : FindByIdSettles(i, res)
  \/ \E i \in JobIndices, res \in SaveOutcomes : SaveProcessingSettles(i, res)
  \/ \E i \in JobIndices, out \in ProcessVideoOutcomes : ProcessVideoSettles(i, out)
  \/ \E i \in JobIndices, res \in SaveOutcomes : SaveResultSettles(i, res)
  \/ \E i \in JobIndices, res \in FindOutcomes : CatchFindSettles(i, res)
  \/ \E i \in JobIndices, res \in SaveOutcomes : CatchSaveSettles(i, res)
  \/ \E i \in JobIndices : Complete(i)

SpecJob == Init /\ [][NextJob]_vars

\* SpecFault: two ids, no socket and no 'error' listener, and every outcome
\* of every lookup, save and processVideo call; stop() followed by enqueue()
\* starts a second loop, so that job bodies run concurrently.
OwnerIds == {"v1", "v2"}

NextFault ==
  \/ \E v \in OwnerIds : Enqueue(v, MaxFaultEnqueues)
  \/ Stop
  \/ TimerFires
  \/ \E i \in JobIndices, res \in FindOutcomes : FindByIdSettles(i, res)
  \/ \E i \in JobIndices, res \in SaveOutcomes : SaveProcessingSettles(i, res)
  \/ \E i \in JobIndices, out \in ProcessVideoOutcomes : ProcessVideoSettles(i, out)
  \/ \E i \in JobIndices, res \in SaveOutcomes : SaveResultSettles(i, res)
  \/ \E i \in JobIndices, res \in FindOutcomes : CatchFindSettles(i, res)
  \/ \E i \in JobIndices, res \in SaveOutcomes : CatchSaveSettles(i, res)
  \/ \E i \in JobIndices : Complete(i)

SpecFault == Init /\ [][NextFault]_vars

\* SpecLive: a scheduler that is never stopped nor cleared, every outcome of
\* every lookup, save and processVideo call, no 'error' listener; every job
\* body and every timer runs on: each await of a job body settles, one way
\* or the other, processNext resumes after a settled job body and a due
\* callback is called.
NextLive ==
  \/ \E v \in OwnerIds : Enqueue(v, MaxLiveEnqueues)
  \/ TimerFires
  \/ \E i \in JobIndices, res \in FindOutcomes : FindByIdSettles(i, res)
  \/ \E i \in JobIndices, res \in SaveOutcomes : SaveProcessingSettles(i, res)
  \/ \E i \in JobIndices, out \in ProcessVideoOutcomes : ProcessVideoSettles(i, out)
  \/ \E i \in JobIndices, res \in SaveOutcomes : SaveResultSettles(i, res)
  \/ \E i \in JobIndices, res \in FindOutcomes : CatchFindSettles(i, res)
  \/ \E i \in JobIndices, res \in SaveOutcomes : CatchSaveSettles(i, res)
  \/ \E i \in JobIndices : Complete(i)

JobSettles(i) ==
  \/ \E res \in FindOutcomes : FindByIdSettles(i, res)
  \/ \E res \in SaveOutcomes : SaveProcessingSettles(i, res)
  \/ \E out \in ProcessVideoOutcomes : ProcessVideoSettles(i, out)
  \/ \E res \in SaveOutcomes : SaveResultSettles(i, res)
  \/ \E res \in FindOutcomes : CatchFindSettles(i, res)
  \/ \E res \in SaveOutcomes : CatchSaveSettles(i, res)
  \/ Complete(i)

SpecLive ==
  /\ Init
  /\ [][NextLive]_vars
  /\ \A i \in JobIndices : WF_vars(JobSettles(i))
  /\ WF_vars(TimerFires)

\* SpecNotify: two records of different owners whose jobs run concurrently,
\* a socket attached at any moment, every outcome of processVideo and of
\* every save (a rejected save runs the catch block and its notifications);
\* the lookups find the records.
NextNotify ==
  \/ SetSocketIO
  \/ \E v \in OwnerIds : Enqueue(v, MaxNotifyEnqueues)
  \/ Stop
  \/ TimerFires
  \/ \E i \in JobIndices : FindByIdSettles(i, "resolve")
  \/ \E i \in JobIndices, res \in SaveOutcomes : SaveProcessingSettles(i, res)
  \/ \E i \in JobIndices, out \in ProcessVideoOutcomes : ProcessVideoSettles(i, out)
  \/ \E i \in JobIndices, res \in SaveOutcomes : SaveResultSettles(i, res)
  \/ \E i \in JobIndices : CatchFindSettles(i, "resolve")
  \/ \E i \in JobIndices, res \in SaveOutcomes : CatchSaveSettles(i, res)
  \/ \E i \in JobIndices : Complete(i)

SpecNotify == Init /\ [][NextNotify]_vars

\* SpecClassify: one call of analyzeSensitivity for every combination of the
\* arguments; the queue is idle.
InitClassify ==
  /\ queue = <<>>
  /\ processing = {}
  /\ maxConcurrent = DefaultMaxConcurrent
  /\ isRunning = FALSE
  /\ timers = 0
  /\ io = FALSE
  /\ errorListener = FALSE
  /\ jobs = <<>>
  /\ db = InitialRecords
  /\ enqueued = <<>>
  /\ dispatched = <<>>
  /\ completed = <<>>
  /\ ignored = 0
  /\ sinceReset = -2
  /\ metadata \in Metadatas
  /\ title \in Titles
  /\ description \in Descriptions
  /\ analysis = NoAnalysis
  /\ clock = 0
  /\ calls = [p \in Calls |-> NoCall]
  /\ files = {}

AnalyzeSensitivity ==
  /\ analysis = NoAnalysis
  /\ analysis' = analyzeSensitivity(metadata, title, description)
  /\ UNCHANGED <<metadata, title, description>>
  /\ UNCHANGED <<queueVars, pipelineVars>>

NextClassify == AnalyzeSensitivity

SpecClassify == InitClassify /\ [][NextClassify]_vars

\* --------------------------------------------------- SpecPipeline
\* no job body has called processVideo, the temporary directory holds none
\* of their files; the queue and the classifier are idle
InitPipeline ==
  /\ queue = <<>>
  /\ processing = {}
  /\ maxConcurrent = DefaultMaxConcurrent
  /\ isRunning = FALSE
  /\ timers = 0
  /\ io = FALSE
  /\ errorListener = FALSE
  /\ jobs = <<>>
  /\ db = InitialRecords
  /\ enqueued = <<>>
  /\ dispatched = <<>>
  /\ completed = <<>>
  /\ ignored = 0
  /\ sinceReset = -2
  /\ metadata = NoMetadata
  /\ title = <<>>
  /\ description = <<>>
  /\ analysis = NoAnalysis
  /\ clock = 0
  /\ calls = [p \in Calls |-> NoCall]
  /\ files = {}

\* the millisecond clock advances
Tick ==
  /\ clock < MaxClock
  /\ clock' = clock + 1
  /\ UNCHANGED <<calls, files>>
  /\ UNCHANGED <<queueVars, classifierVars>>

\* the awaited operation of call p settles
Settle(p, out, next) ==
  /\ CanSettle(calls[p], out, files)
  /\ calls' = [calls EXCEPT ![p] = next]
  /\ files' = filesAfter(calls[p], out, files)
  /\ UNCHANGED clock
  /\ UNCHANGED <<queueVars, classifierVars>>

\* a job body calls processVideo(video); the clock may advance between the
\* two calls of Date.now()
ProcessVideo(p, ext) ==
  /\ calls[p].pc = "idle"
  /\ \E later \in {clock, clock + 1} :
       /\ later <= MaxClock
       /\ clock' = later
       /\ calls' = [calls EXCEPT ![p] = processVideoStart(@, clock, later, ext)]
  /\ UNCHANGED files
  /\ UNCHANGED <<queueVars, classifierVars>>

DownloadToBufferSettles(p, out) ==
  /\ calls[p].pc = "downloadToBuffer"
  /\ Settle(p, out, onDownloadToBuffer(calls[p], out))

WriteFileSettles(p, out) ==
  /\ calls[p].pc = "writeFile"
  /\ Settle(p, out, onWriteFile(calls[p], out))

ExtractMetadataSettles(p, out, d) ==
  /\ calls[p].pc = "extractMetadata"
  /\ Settle(p, out, onExtractMetadata(calls[p], out, d))

GenerateThumbnailSettles(p, out) ==
  /\ calls[p].pc = "generateThumbnail"
  /\ Settle(p, out, onGenerateThumbnail(calls[p], out))

ReadFileSettles(p, out) ==
  /\ calls[p].pc = "readFile"
  /\ Settle(p, out, onReadFile(calls[p], out))

UploadToGridFSSettles(p, out) ==
  /\ calls[p].pc = "uploadToGridFS"
  /\ Settle(p, out, onUploadToGridFS(calls[p], out))

UnlinkVideoSettles(p, out) ==
  /\ calls[p].pc = "unlinkVideo"
  /\ Settle(p, out, onUnlinkVideo(calls[p], out))

UnlinkThumbnailSettles(p, out) ==
  /\ calls[p].pc = "unlinkThumbnail"
  /\ Settle(p, out, onUnlinkThumbnail(calls[p], out))

CatchUnlinkVideoSettles(p, out) ==
  /\ calls[p].pc = "catchUnlinkVideo"
  /\ Settle(p, out, onCatchUnlinkVideo(calls[p], out))

CatchUnlinkThumbnailSettles(p, out) ==
  /\ calls[p].pc = "catchUnlinkThumbnail"
  /\ Settle(p, out, onCatchUnlinkThumbnail(calls[p], out))

\* SpecPipeline: the processVideo calls of concurrent job bodies, every
\* await settling either way, over a clock; the queue is idle.
NextPipeline ==
  \/ Tick
  \/ \E p \in Calls, ext \in Exts : ProcessVideo(p, ext)
  \/ \E p \in Calls, out \in Settlements : DownloadToBufferSettles(p, out)
  \/ \E p \in Calls, out \in Settlements : WriteFileSettles(p, out)
  \/ \E p \in Calls, out \in Settlements, d \in DurationsMs :
       ExtractMetadataSettles(p, out, d)
  \/ \E p \in Calls, out \in Settlements : GenerateThumbnailSettles(p, out)
  \/ \E p \in Calls, out \in Settlements : ReadFileSettles(p, out)
  \/ \E p \in Calls, out \in Settlements : UploadToGridFSSettles(p, out)
  \/ \E p \in Calls, out \in Settlements : UnlinkVideoSettles(p, out)
  \/ \E p \in Calls, out \in Settlements : UnlinkThumbnailSettles(p, out)
  \/ \E p \in Calls, out \in Settlements : CatchUnlinkVideoSettles(p, out)
  \/ \E p \in Calls, out \in Settlements : CatchUnlinkThumbnailSettles(p, out)

SpecPipeline == InitPipeline /\ [][NextPipeline]_vars

TypeOK ==
  /\ Range(queue) \subseteq Ids
  /\ processing \subseteq Ids
  /\ isRunning \in BOOLEAN
  /\ timers \in 0..MaxLoops
  /\ Len(jobs) <= MaxLoops

\* ----------------------------------------------------------------- claims
\* occurrences of an id across pending and in-flight
Occurrences(v) ==
  Cardinality({i \in 1..Len(queue) : queue[i] = v}) + (IF v \in processing THEN 1 ELSE 0)

\* C1: with clear() never called (Spec has no clear), the in-flight set never
\* holds more than maxConcurrent ids, whatever the interleaving of enqueue,
\* start, stop, timers and job completions.
ConcurrencyBound == Cardinality(processing) <= maxConcurrent

\* the bound is reached while work is pending and a scheduler loop polls
ConcurrencyBoundReached ==
  /\ Cardinality(processing) = maxConcurrent
  /\ queue # <<>>
  /\ timers > 0

\* C2: an id occurs at most once across pending and in-flight, and after any
\* enqueue(v) call, appending or ignored (the two kinds of step that change
\* enqueued or ignored), v occurs exactly once.
UniqueIds ==
  /\ [](\A v \in Ids : Occurrences(v) <= 1)
  /\ [][(enqueued' # enqueued \/ ignored' # ignored) =>
          \A v \in Ids : Enqueue(v, MaxClearEnqueues) => Occurrences(v)' = 1]_vars

\* stop(); clear(); enqueue(v); enqueue(v): the second call was ignored
EnqueuedTwice ==
  /\ sinceReset = 1
  /\ ignored = 1
  /\ \E v \in Ids : Occurrences(v) = 1

\* C3: ids are dispatched in the order enqueue appended them: the sequence
\* of 'processing' events is a prefix of the sequence of appended ids
\* (clear() never called).
FifoDispatch ==
  /\ Len(dispatched) <= Len(enqueued)
  /\ dispatched = SubSeq(enqueued, 1, Len(dispatched))

\* three distinct ids have been dispatched one at a time
ThreeDispatchedInOrder ==
  /\ maxConcurrent = 1
  /\ Len(dispatched) = 3
  /\ Cardinality(Range(dispatched)) = 3

\* C4: after stop(); clear() and the enqueue of 3 distinct ids with no other
\* call, getStats() reports queued = 3 and processing = 0.
QueueStatistics ==
  sinceReset = 3 => (getStats.queued = 3 /\ getStats.processing = 0)

TerminalExclusivity ==
  \A v \in Ids :
    /\ db[v].status = "ready" => (db[v].derived /\ db[v].err = "none")
    /\ db[v].status = "failed" => (db[v].err # "none" /\ ~db[v].derived)

\* C7: a job whose findById returned no record returns normally, without a
\* save, a processVideo call or a notification.
MissingRecordHandling ==
  \A i \in 1..Len(jobs) :
    jobs[i].missing =>
      /\ jobs[i].pc = "settled"
      /\ ~jobs[i].threw
      /\ jobs[i].saves = 0
      /\ ~jobs[i].pvCalled
      /\ jobs[i].notes = <<>>

\* a job found no record while a socket was attached
MissingRecordJob ==
  \E i \in 1..Len(jobs) :
    jobs[i].missing /\ jobs[i].id = "v3" /\ io /\ db = InitialRecords

\* C8: processJob never rejects.
JobBodyNeverThrows == \A i \in 1..Len(jobs) : ~jobs[i].threw

\* the job body dispatched as the k-th is still running
JobLive(k) == \E i \in 1..Len(jobs) : jobs[i].n = k

\* C9: while the scheduler is stopped no id is dispatched (the only step
\* that dispatches from a stopped scheduler is the start() that sets
\* isRunning, called directly or by enqueue), and every job in flight while
\* it is stopped runs to completion, leaves the in-flight set and gets its
\* 'completed' event.
StopHaltsDispatch ==
  /\ [][(~isRunning /\ dispatched' # dispatched) => isRunning']_vars
  /\ \A k \in 1..MaxStopEnqueues :
       (~isRunning /\ JobLive(k))
         ~> (/\ ~JobLive(k)
             /\ Len(dispatched) >= k
             /\ dispatched[k] \in Range(completed)
             /\ dispatched[k] \notin processing)

\* the scheduler is stopped with work pending, every loop has ended and the
\* dispatched job has completed
StoppedWithPending ==
  /\ ~isRunning
  /\ queue # <<>>
  /\ timers = 0
  /\ jobs = <<>>
  /\ Len(dispatched) = 1
  /\ completed = dispatched

OwnerOnlyNotification ==
  \A i \in 1..Len(jobs) :
    \A k \in 1..Len(jobs[i].notes) :
      /\ jobs[i].notes[k].room = db[jobs[i].id].owner
      /\ jobs[i].notes[k].videoId = jobs[i].id

\* two jobs of different owners are in flight and each has notified, one of
\* them of an error
OwnersNotifiedConcurrently ==
  /\ Len(jobs) = 2
  /\ db[jobs[1].id].owner # db[jobs[2].id].owner
  /\ jobs[1].notes # <<>>
  /\ \E k \in 1..Len(jobs[2].notes) : jobs[2].notes[k].kind = "error"

\* what a step of a job leaves behind, the notifications aside: the job's
\* position and results, the records and the queue events
Persisted(s) == [job |-> [s.job EXCEPT !.notes = <<>>], db |-> s.db, events |-> s.events]

\* the queue state a scheduler step leaves, the notifications aside
QueueState(q) ==
  [queue |-> q.queue, processing |-> q.processing, isRunning |-> q.isRunning,
   timers |-> q.timers, dispatched |-> q.dispatched, events |-> q.events,
   jobs |-> [i \in 1..Len(q.jobs) |-> [q.jobs[i] EXCEPT !.notes = <<>>]]]

\* C12: while no socket is attached the emit helpers emit nothing (and a job
\* runs on as it does with one); and attaching the socket changes nothing
\* but the notifications: for every job in flight and every outcome of the
\* call it awaits, the job's next step leaves the same record, the same job
\* results and the same queue events with io null (before setSocketIO) as
\* with io set (after it), the notifications a job has already sent have no
\* influence on its next step, and the completion of a settled job leaves
\* the same queue state.
BestEffortNotification ==
  /\ [](~io => \A i \in 1..Len(jobs) : jobs[i].notes = <<>>)
  /\ [][SetSocketIO =>
          \A i \in 1..Len(jobs) :
            /\ \A res \in AwaitOutcomes(jobs[i]) :
                 Persisted(processJob(jobs[i], res, db))
                   = Persisted(processJob(jobs[i], res, db))'
            /\ jobs[i].pc = "settled"
                 => QueueState(finally(Q, i)) = QueueState(finally(Q, i))']_vars
  /\ [](\A i \in 1..Len(jobs) :
          \A res \in AwaitOutcomes(jobs[i]) :
            Persisted(processJob(jobs[i], res, db))
              = Persisted(processJob([jobs[i] EXCEPT !.notes = <<>>], res, db)))

\* the socket was attached while a job awaited its final save: the job has
\* settled with the record 'ready' and sent only the last two notifications
ChannelAttachedMidJob ==
  /\ io
  /\ \E i \in 1..Len(jobs) :
       /\ jobs[i].pc = "settled"
       /\ db[jobs[i].id].status = "ready"
       /\ Len(jobs[i].notes) = 2

\* occurrences of an id in a history
Count(seq, v) == Cardinality({i \in 1..Len(seq) : seq[i] = v})

\* C13: an id is dispatched at most as often as enqueue appended it; the
\* pending queue grows only in an enqueue call that appends the id; and when
\* a job completes, whatever its outcome (record 'ready' or 'failed', or an
\* exception thrown by the job body), its id is neither pending nor in
\* flight.
NoAutomaticRetry ==
  /\ [](\A v \in Ids : Count(dispatched, v) <= Count(enqueued, v))
  /\ [][\A v \in Ids : Count(queue', v) > Count(queue, v)
                         => enqueued' = Append(enqueued, v)]_vars
  /\ [][\A i \in 1..Len(jobs), v \in Ids :
          (Complete(i) /\ v = jobs[i].id) => Occurrences(v)' = 0]_vars

\* the job of v1 failed and completed; the scheduler polls on with nothing
\* pending and v1 dispatched once
FailedAndNotRequeued ==
  /\ db["v1"].status = "failed"
  /\ completed = <<"v1">>
  /\ dispatched = <<"v1">>
  /\ queue = <<>>
  /\ jobs = <<>>
  /\ isRunning
  /\ timers > 0

\* the keywords of the list that occur in the text of a call, letter case
\* aside
KeywordsInText ==
  {k \in Range(sensitiveKeywords) :
     includes(toLowerCase(title \o <<" ">> \o description), toLowerCase(k))}

\* the flags of a result that name a keyword
KeywordFlags(a) == {i \in 1..Len(a.flags) : a.flags[i].keyword # <<>>}

\* C14: the level returned is 'flagged' if a keyword occurs in the text;
\* otherwise 'safe' for no flag, 'flagged' for 3 or more flags and 'unknown'
\* for 1 or 2; it is one of the three levels, and 'safe' exactly when the
\* flag list is empty.
LevelDetermination ==
  analysis # NoAnalysis =>
    /\ KeywordsInText # {} => analysis.sensitivity = "flagged"
    /\ KeywordsInText = {} =>
         analysis.sensitivity = (IF Len(analysis.flags) = 0 THEN "safe"
                                 ELSE IF Len(analysis.flags) >= 3 THEN "flagged"
                                 ELSE "unknown")
    /\ analysis.sensitivity \in {"safe", "unknown", "flagged"}
    /\ analysis.sensitivity = "safe" <=> analysis.flags = <<>>

\* a call without a keyword returned 'flagged' for three flags
FlaggedByCount ==
  /\ analysis.sensitivity = "flagged"
  /\ Len(analysis.flags) = 3
  /\ KeywordFlags(analysis) = {}
  /\ KeywordsInText = {}

\* size / duration < 10000 in the arithmetic of the source: a quotient by 0
\* is Infinity or NaN, neither of which is below 10000
LowBitrate(m) == m.duration # 0 /\ m.size < 10000 * m.duration

\* audio absent and duration > 30
NoAudio(m) == ~m.audio /\ m.duration > 30

\* the first keyword, in list order, that occurs in the text
FirstKeywordInText ==
  sensitiveKeywords[CHOOSE i \in 1..Len(sensitiveKeywords) :
                      /\ sensitiveKeywords[i] \in KeywordsInText
                      /\ \A j \in 1..(i - 1) : sensitiveKeywords[j] \notin KeywordsInText]

\* C15: a text without a keyword (letter case aside) yields no keyword flag;
\* a text with one yields level 'flagged' and exactly one keyword flag,
\* naming the first keyword in list order that occurs in it, and the low
\* bitrate and no-audio flags follow the keyword flag exactly when their
\* rules apply.
KeywordRule ==
  analysis # NoAnalysis =>
    /\ KeywordsInText = {} => KeywordFlags(analysis) = {}
    /\ KeywordsInText # {} =>
         /\ analysis.sensitivity = "flagged"
         /\ Cardinality(KeywordFlags(analysis)) = 1
         /\ \A i \in KeywordFlags(analysis) :
              /\ analysis.flags[i] = KeywordFlag(FirstKeywordInText)
              /\ SubSeq(analysis.flags, i + 1, Len(analysis.flags))
                   = (IF LowBitrate(metadata)
                      THEN << Flag("Unusually low bitrate/quality") >> ELSE <<>>)
                     \o (IF NoAudio(metadata)
                         THEN << Flag("No audio stream in video > 30s") >> ELSE <<>>)

\* "graphic Explicit" holds two keywords; the flag names 'explicit', the
\* earlier in the list, and the low bitrate and no-audio flags follow it
FirstOfTwoKeywords ==
  /\ Cardinality(KeywordsInText) = 2
  /\ Len(analysis.flags) >= 3
  /\ analysis.flags[Len(analysis.flags) - 2] = KeywordFlag(sensitiveKeywords[1])
  /\ analysis.flags[Len(analysis.flags)] = Flag("No audio stream in video > 30s")

\* the flags of the rule list for the arguments of the call, in rule order
RuleListFlags ==
  (IF metadata.duration < 5 THEN << Flag("Very short duration (< 5 seconds)") >>
   ELSE IF metadata.duration > 3600 THEN << Flag("Very long duration (> 1 hour)") >>
   ELSE <<>>)
  \o (IF /\ metadata.width > 0
         /\ metadata.height > 0
         /\ \/ 2 * metadata.width < metadata.height
            \/ metadata.width > 3 * metadata.height
      THEN << Flag("Unusual aspect ratio") >> ELSE <<>>)
  \o (IF KeywordsInText # {} THEN << KeywordFlag(FirstKeywordInText) >> ELSE <<>>)
  \o (IF LowBitrate(metadata) THEN << Flag("Unusually low bitrate/quality") >> ELSE <<>>)
  \o (IF NoAudio(metadata) THEN << Flag("No audio stream in video > 30s") >> ELSE <<>>)

DispatchDoesNotBlock ==
  (/\ isRunning
   /\ maxConcurrent = 2
   /\ queue # <<>>
   /\ Cardinality(processing) < maxConcurrent)
    => timers > 0

\* C19: while the scheduler runs at most one scheduler loop is live, a loop
\* being a pending processNext callback or a processNext suspended at its
\* await of a job body.
SingleSchedulerLoop == isRunning => Loops(Q) <= 1

\* the running job bodies of an id
JobsOf(v) == {i \in 1..Len(jobs) : jobs[i].id = v}

\* C20: every dispatched id has one running job body or one 'completed'
\* event, never both and never two, and is in flight exactly while its job
\* body runs; when a job body has settled, by return or by throwing,
\* processNext removes its id and nothing else from the in-flight set, emits
\* 'completed' for it, schedules the next processNext and leaves the pending
\* queue and the other job bodies as they are; and a step of one job body,
\* a throwing one included, leaves the pending queue, the in-flight set and
\* the other job bodies unchanged.
UnconditionalCompletion ==
  /\ [](\A v \in Ids :
          /\ Count(dispatched, v) = Count(completed, v) + Cardinality(JobsOf(v))
          /\ v \in processing <=> JobsOf(v) # {})
  /\ [][\A i \in 1..Len(jobs), v \in Ids :
          (Complete(i) /\ v = jobs[i].id) =>
            /\ processing' = processing \ {v}
            /\ completed' = Append(completed, v)
            /\ timers' = timers + 1
            /\ queue' = queue
            /\ jobs' = RemoveAt(jobs, i)]_vars
  /\ [][\A i \in 1..Len(jobs) :
          (Len(jobs') = Len(jobs) /\ jobs'[i] # jobs[i]) =>
            /\ queue' = queue
            /\ processing' = processing
            /\ \A j \in 1..Len(jobs) : j # i => jobs'[j] = jobs[j]]_vars

\* the job body of v1 threw before it reached a terminal status and v1 has
\* completed, while the job of v2 is still in flight
ThrownJobCompleted ==
  /\ completed = <<"v1">>
  /\ db["v1"].status \notin {"ready", "failed"}
  /\ processing = {"v2"}
  /\ Len(jobs) = 1
  /\ jobs[1].id = "v2"
  /\ timers > 0

\* C21: a job body that found no record for its id calls emit('error') for
\* it before it settles: the event reaches the listener or, without a
\* listener, is thrown by emit.
MissingRecordReported ==
  \A i \in 1..Len(jobs) :
    (jobs[i].missing /\ jobs[i].pc = "settled")
      => (jobs[i].errorEvent \/ jobs[i].threw)

\* a lookup or a save of job i rejects
Rejects(i) ==
  \/ FindByIdSettles(i, "reject")
  \/ SaveProcessingSettles(i, "reject")
  \/ SaveResultSettles(i, "reject")
  \/ CatchFindSettles(i, "reject")
  \/ CatchSaveSettles(i, "reject")

\* C22: when a lookup or a save of a job rejects, the job runs its catch
\* block and processVideo is not started from then on; the catch block ends
\* with emit('error', videoId, error), which reaches the listener if one is
\* registered (and is thrown by emit otherwise); and when the job completes
\* its id leaves the in-flight set and the next processNext is scheduled.
PersistenceErrorsReported ==
  /\ [][\A i \in 1..Len(jobs) :
          Rejects(i) => /\ jobs'[i].pc \in {"cfind", "settled"}
                        /\ jobs'[i].error = DbErrorMessage
                        /\ jobs'[i].pvCalled = jobs[i].pvCalled]_vars
  /\ [][\A i \in 1..Len(jobs) :
          (jobs[i].pc \in {"cfind", "csave"} /\ Len(jobs') = Len(jobs)) =>
            /\ jobs'[i].pvCalled = jobs[i].pvCalled
            /\ jobs'[i].pc = "settled" =>
                 (IF errorListener THEN jobs'[i].errorEvent ELSE jobs'[i].threw)]_vars
  /\ [](\A i \in 1..Len(jobs) :
          (jobs[i].error = DbErrorMessage /\ jobs[i].pc = "settled")
            => (jobs[i].errorEvent \/ jobs[i].threw))
  /\ [][\A i \in 1..Len(jobs), v \in Ids :
          (Complete(i) /\ v = jobs[i].id /\ jobs[i].error = DbErrorMessage) =>
            (v \notin processing' /\ timers' = timers + 1)]_vars

\* the first save of a job was rejected: processVideo was not called, the
\* catch block persisted 'failed' and the listener got the 'error' event
RejectedSaveReported ==
  \E i \in 1..Len(jobs) :
    /\ jobs[i].pc = "settled"
    /\ jobs[i].errorEvent
    /\ ~jobs[i].pvCalled
    /\ db[jobs[i].id].status = "failed"
    /\ db[jobs[i].id].err = DbErrorMessage

\* a is the end of b
IsSuffix(a, b) == Len(a) <= Len(b) /\ a = SubSeq(b, Len(b) - Len(a) + 1, Len(b))

\* the notifications of a successful job of video v of user u, in order
SuccessNotes(v, u) ==
  emitProcessingStatus(TRUE, u, v, "processing", NullSensitivity)
    \o emitProcessingProgress(TRUE, u, v, 0)
    \o emitProcessingProgress(TRUE, u, v, 25)
    \o emitProcessingProgress(TRUE, u, v, 75)
    \o emitProcessingProgress(TRUE, u, v, 100)
    \o emitProcessingStatus(TRUE, u, v, "ready", ResultSensitivity)

\* job has met no failure so far: its record exists, no lookup or save
\* rejected and processVideo did not fail
OnSuccessPath(job) ==
  /\ ~job.missing
  /\ job.error = "none"
  /\ job.result \in {"none", "success"}
  /\ job.pc \in {"save1", "pv", "saveReady", "settled"}

\* how many of SuccessNotes a job on the success path has passed
NotesDue(job) ==
  CASE job.pc = "save1" -> 0
    [] job.pc = "pv" -> 3
    [] job.pc = "saveReady" -> 4
    [] OTHER -> 6

\* C23: a job that meets no failure has, at each await, sent the
\* notifications of SuccessNotes up to that point, in that order and once
\* each (all of them if the socket was attached before the job, the later
\* ones if it was attached meanwhile) and no other; status(processing),
\* progress(0) and progress(25) come after the save of 'processing', which
\* is the job's first save; progress(75) before the second and last save;
\* progress(100) and status(ready), which carries the result's sensitivity,
\* after the record is persisted 'ready' with the derived fields.
SuccessSequence ==
  \A i \in 1..Len(jobs) :
    OnSuccessPath(jobs[i]) =>
      LET job == jobs[i]
          rec == db[job.id]
      IN /\ IsSuffix(job.notes, SubSeq(SuccessNotes(job.id, rec.owner), 1, NotesDue(job)))
         /\ job.pc = "save1" => job.saves = 1
         /\ job.pc = "pv" => (job.saves = 1 /\ rec.status = "processing")
         /\ job.pc = "saveReady" => (job.saves = 2 /\ rec.status = "processing")
         /\ job.pc = "settled" => (job.saves = 2 /\ rec.status = "ready" /\ rec.derived)

\* a job has settled with the record 'ready' after all six notifications
SuccessNotified ==
  \E i \in 1..Len(jobs) :
    /\ OnSuccessPath(jobs[i])
    /\ jobs[i].pc = "settled"
    /\ jobs[i].notes = SuccessNotes(jobs[i].id, db[jobs[i].id].owner)
    /\ db[jobs[i].id].status = "ready"

\* the messages of a failed processVideo
FailureMessages == ProcessVideoOutcomes \ {"success"}

\* what holds of every job whose processVideo failed: the error
\* notification precedes status(failed), and progress(100) and
\* status(ready) are not sent
FailureOrder(job) ==
  /\ \A k, l \in 1..Len(job.notes) :
       (job.notes[k].kind = "error" /\ job.notes[l].kind = "status"
          /\ job.notes[l].status = "failed") => k < l
  /\ \A k \in 1..Len(job.notes) :
       /\ job.notes[k].kind = "progress" => job.notes[k].percent # 100
       /\ job.notes[k].kind = "status" => job.notes[k].status # "ready"

\* C24 as stated: once a job whose processVideo failed has notified the
\* error, the record is persisted 'failed' with processingError equal to the
\* failure message of processVideo, which the notification carries; the
\* error notification precedes status(failed); no progress(100) and no
\* status(ready).
FailureSequenceAnySave ==
  \A i \in 1..Len(jobs) :
    jobs[i].result = "failure" =>
      /\ FailureOrder(jobs[i])
      /\ \A k \in 1..Len(jobs[i].notes) :
           jobs[i].notes[k].kind = "error" =>
             /\ db[jobs[i].id].status = "failed"
             /\ db[jobs[i].id].err \in FailureMessages
             /\ jobs[i].notes[k].error = db[jobs[i].id].err

\* C24 amended: as above when the save of 'failed' succeeds; when it is
\* rejected, the catch block persists 'failed' with the message of the save
\* error in place of the failure message and notifies that message, and
\* nothing is notified if that save fails too. In every case the error
\* notification follows the save of the message it carries and precedes
\* status(failed), and progress(100) and status(ready) are not sent.
FailureSequence ==
  \A i \in 1..Len(jobs) :
    jobs[i].result = "failure" =>
      /\ FailureOrder(jobs[i])
      /\ \A k \in 1..Len(jobs[i].notes) :
           jobs[i].notes[k].kind = "error" =>
             /\ db[jobs[i].id].status = "failed"
             /\ jobs[i].notes[k].error = db[jobs[i].id].err
             /\ db[jobs[i].id].err =
                  (IF jobs[i].error \in FailureMessages THEN jobs[i].error
                   ELSE DbErrorMessage)
      /\ (jobs[i].pc = "settled" /\ jobs[i].error \in FailureMessages) =>
           /\ db[jobs[i].id].status = "failed"
           /\ db[jobs[i].id].err = jobs[i].error

\* a job whose download failed has settled: the record is 'failed' with the
\* download error, and the error and status(failed) were notified
FailureNotified ==
  \E i \in 1..Len(jobs) :
    /\ jobs[i].pc = "settled"
    /\ jobs[i].result = "failure"
    /\ jobs[i].error = "download_error"
    /\ db[jobs[i].id].err = "download_error"
    /\ Len(jobs[i].notes) = 6
    /\ jobs[i].notes[5].kind = "error"
    /\ jobs[i].notes[6].kind = "status"

\* job has sent progress(p)
Notified(job, p) ==
  \E k \in 1..Len(job.notes) :
    job.notes[k].kind = "progress" /\ job.notes[k].percent = p

\* C25: a job has notified progress(25) only if processVideo has returned
\* and its download did not fail, and progress(75) only if processVideo has
\* returned success (metadata, thumbnail and upload done).
MilestonesFollowPipeline ==
  \A i \in 1..Len(jobs) :
    /\ Notified(jobs[i], 25) =>
         (jobs[i].result # "none" /\ jobs[i].error # "download_error")
    /\ Notified(jobs[i], 75) => jobs[i].result = "success"

\* the job bodies of an id that have not yet returned or thrown
Executing(v) == {i \in JobsOf(v) : jobs[i].pc # "settled"}

\* C26: at most one job body per videoId executes at a time, whatever the
\* sequence of enqueue, start, stop, clear and job completions.
OneJobPerVideo ==
  \A v \in Ids : Cardinality(Executing(v)) <= 1

\* C27: when processVideo has returned, by either path, unlink has been
\* called for both the temporary video file and the temporary thumbnail
\* file.
TempFilesCleanedUp ==
  \A p \in Calls :
    calls[p].pc = "returned" =>
      calls[p].unlinked = {calls[p].tempVideoPath, calls[p].tempThumbnailPath}

\* C28: the duration that processVideo returns is the extracted duration
\* truncated to whole seconds (floor of the milliseconds over 1000).
DurationTruncated ==
  \A p \in Calls :
    (calls[p].pc = "returned" /\ calls[p].success) =>
      calls[p].resultDuration = calls[p].duration \div 1000

\* the calls of processVideo that have started and not yet returned
Running == {p \in Calls : calls[p].pc \notin {"idle", "returned"}}

\* C30: two calls of processVideo that run at the same time never have the
\* same temporary video path or the same temporary thumbnail path.
TempPathsDisjoint ==
  \A p, q \in Running :
    p # q => /\ calls[p].tempVideoPath # calls[q].tempVideoPath
             /\ calls[p].tempThumbnailPath # calls[q].tempThumbnailPath

\* the k-th id appended by enqueue has been dispatched and its job body has
\* completed
Processed(k) ==
  /\ Len(dispatched) >= k
  /\ dispatched[k] = enqueued[k]
  /\ \A i \in 1..Len(jobs) : jobs[i].n # k
  /\ enqueued[k] \in Range(completed)

\* C29: once an id has been appended by enqueue, it is eventually dispatched
\* and completed if the scheduler stays running, whatever the outcomes of
\* the job bodies (clear() is not called; the job bodies and the timers run
\* on).
EveryJobProcessed ==
  \A k \in 1..MaxLiveEnqueues :
    (Len(enqueued) >= k) ~> (~isRunning \/ Processed(k))

\* the second id appended has been processed by a running scheduler after
\* the job of the first one failed
SecondJobProcessed ==
  /\ isRunning
  /\ Len(enqueued) >= 2
  /\ Processed(1)
  /\ db[enqueued[1]].status = "failed"
  /\ Processed(2)

====
